---------------------------- MODULE Spec2Model ----------------------------
(***************************************************************************)
(* Tower-jump analyzer: the CSV loader, the coordinate-based label         *)
(* imputer and the interval segmenter/classifier of src/processor.py       *)
(* (rolling boundary) and src/test.py (fixed start).                       *)
(*                                                                         *)
(* Units.  Timestamps are whole minutes since an arbitrary epoch.          *)
(* Coordinates are integers in units of 1e-5 degree, so that round(x, 3)   *)
(* and round(x, 4) are both proper roundings.  Confidence thresholds are   *)
(* integer percents (0.6 is 60) and every confidence comparison is done    *)
(* exactly, by cross-multiplication.                                       *)
(***************************************************************************)
EXTENDS Integers, Sequences, FiniteSets

VARIABLES
    impl,                   \* which program runs: "processor" or "test"
    rows,                   \* the CSV rows of the input file
    data,                   \* processor: self.data; test: self.df
    pc,                     \* position in the pipeline
    time_window_minutes,    \* self.time_window_minutes / the parameter
    min_confidence,         \* self.min_confidence / the parameter, in percent
    sorted_data,            \* processor: the local sorted_data
    i,                      \* index of the next record of the for loop
    current_interval,       \* processor: the local current_interval
    current_interval_start, \* test: the local current_interval_start
    state_records,          \* test: the local state_records
    state_rows,             \* history: the rows behind state_records
    results,                \* the local results
    members,                \* history: the member records of each result
    filled_log              \* the "States filled: n" lines printed so far

vars == <<impl, rows, data, pc, time_window_minutes, min_confidence,
          sorted_data, i, current_interval, current_interval_start,
          state_records, state_rows, results, members, filled_log>>

-----------------------------------------------------------------------------
(* Bounds of the model.                                                    *)

MaxRows == 3          \* rows of an input file, segmentation runs
MaxTime == 2          \* latest timestamp, segmentation runs
MaxWindow == 1        \* largest time window, segmentation runs
MaxVoteRows == 5      \* rows of an input file, classification runs
MaxFillRows == 4      \* rows of an input file, imputation runs
MaxFills == 2         \* calls of fill_missing_states
MaxLoadRows == 2      \* rows of an input file, loader runs
MaxShift == 1         \* latest T of the end-to-end scenario

(* Program constants.                                                      *)

None == -1                 \* Python's None, where a timestamp is expected
DefaultWindow == 5         \* self.time_window_minutes = 5
DefaultConfidence == 60    \* self.min_confidence = 0.6

-----------------------------------------------------------------------------
(* Generic helpers.                                                        *)

Range(s) == {s[k] : k \in DOMAIN s}

SeqsUpTo(S, n) == UNION {[1..m -> S] : m \in 0..n}

RECURSIVE Concat(_)
Concat(ss) == IF ss = <<>> THEN <<>> ELSE Head(ss) \o Concat(Tail(ss))

RECURSIVE Gcd(_, _)
Gcd(a, b) == IF b = 0 THEN a ELSE Gcd(b, a % b)

(* A float quotient n/d, kept as the reduced fraction.                     *)
Quotient(n, d) == LET g == Gcd(n, d) IN <<n \div g, d \div g>>

-----------------------------------------------------------------------------
(* Text fields of a CSV row.  A cell is its text class and, for a numeric  *)
(* cell, its value; a date-time cell is its format ("mdy" for              *)
(* %m/%d/%y %H:%M, "iso" for %Y-%m-%d %H:%M:%S with seconds 00, "bad" for  *)
(* any other text) and its minute.  Page stands for Page and Item alike.   *)

EmptyCell == [txt |-> "", v |-> 0]
JunkCell == [txt |-> "junk", v |-> 0]
NumCell(v) == [txt |-> "num", v |-> v]
DateCell(fmt, t) == [fmt |-> fmt, t |-> t]

Row(dt, page, lat, lon, st) ==
    [UTCDateTime |-> dt, Page |-> page, Latitude |-> lat, Longitude |-> lon,
     State |-> st]

(* str.strip() on the labels of the model: a whitespace-only label strips  *)
(* to the empty string, any other label keeps its letters.                 *)
Strip(s) == IF s = " " THEN "" ELSE s

(* processor.py: `not record["state"] or not record["state"].strip()`.    *)
IsBlank(s) == s = "" \/ Strip(s) = ""

(* test.py: `pd.isna(row["State"]) or row["State"] == ""`; read_csv turns  *)
(* an empty cell into NaN, which the model keeps as "".                    *)
TestIsBlank(s) == s = ""

-----------------------------------------------------------------------------
(* Counter.                                                                *)

Count(states, s) == Cardinality({k \in DOMAIN states : states[k] = s})

FirstIndex(states, s) ==
    CHOOSE k \in DOMAIN states :
        states[k] = s /\ \A j \in 1..(k - 1) : states[j] # s

(* Counter(states).most_common(1)[0][0]: the label of the largest count,   *)
(* the first encountered among equals.                                     *)
MostCommon(states) ==
    CHOOSE s \in Range(states) :
        \A u \in Range(states) :
            \/ Count(states, s) > Count(states, u)
            \/ /\ Count(states, s) = Count(states, u)
               /\ FirstIndex(states, s) <= FirstIndex(states, u)

(* dict(state_counter).                                                    *)
StatesCount(states) == [s \in Range(states) |-> Count(states, s)]

-----------------------------------------------------------------------------
(* processor.py: the loader.                                               *)

(* _parse_datetime: the first format, then the second, then None.          *)
_parse_datetime(dt_str) ==
    IF dt_str.fmt = "mdy" THEN dt_str.t
    ELSE IF dt_str.fmt = "iso" THEN dt_str.t
    ELSE None

(* float(row["Latitude"]) if row["Latitude"] else 0.0                      *)
CoordOf(cell) == IF cell.txt = "" THEN 0 ELSE cell.v

(* int(...) and float(...) raise ValueError on text that is no number;     *)
(* int("") raises too, float is not called on an empty cell.               *)
RaisesValueError(row) ==
    \/ row.Page.txt # "num"
    \/ row.Latitude.txt = "junk"
    \/ row.Longitude.txt = "junk"

(* _process_row: <<record>>, or <<>> for the None of the except branch.    *)
_process_row(row) ==
    IF RaisesValueError(row) THEN <<>>
    ELSE <<[utc_datetime |-> _parse_datetime(row.UTCDateTime),
            latitude |-> CoordOf(row.Latitude),
            longitude |-> CoordOf(row.Longitude),
            state |-> row.State]>>

(* load_data: every row whose processed form is truthy is appended.        *)
LoadedData(rs) == Concat([k \in DOMAIN rs |-> _process_row(rs[k])])

load_data ==
    /\ impl = "processor"
    /\ pc = "new"
    /\ data' = data \o LoadedData(rows)
    /\ pc' = "loaded"
    /\ UNCHANGED <<impl, rows, time_window_minutes, min_confidence,
                   sorted_data, i, current_interval, current_interval_start,
                   state_records, state_rows, results, members, filled_log>>

-----------------------------------------------------------------------------
(* The imputer.                                                            *)

(* round(x, 3) and round(x, 4) on coordinates in 1e-5 degree.  The model's *)
(* coordinates avoid exact halves, where the float decides.                *)
RoundTo(x, unit) ==
    IF x >= 0 THEN unit * ((x + unit \div 2) \div unit)
    ELSE -(unit * (((-x) + unit \div 2) \div unit))

Round3(x) == RoundTo(x, 100)
Round4(x) == RoundTo(x, 10)

coord_key(record) == <<Round3(record.latitude), Round3(record.longitude)>>

HasCoords(record) == record.latitude # 0 /\ record.longitude # 0

(* The first loop's test: a known label at real coordinates.               *)
IsKnown(record) == ~IsBlank(record.state) /\ HasCoords(record)

(* coord_to_state[key] after the first loop: the labels in record order.   *)
StatesAt(d, key) ==
    LET known == SelectSeq(d, LAMBDA r : IsKnown(r) /\ coord_key(r) = key)
    IN  [k \in DOMAIN known |-> known[k].state]

(* coord_to_state after the second loop: key -> most common label.         *)
coord_to_state(d) ==
    [key \in {coord_key(d[k]) : k \in {j \in DOMAIN d : IsKnown(d[j])}}
        |-> MostCommon(StatesAt(d, key))]

(* The third loop's test on one record.                                    *)
(* Variant: the third loop without its test of the coordinates.            *)
FillsNoSentinelCheck(d, k) ==
    /\ IsBlank(d[k].state)
    /\ coord_key(d[k]) \in DOMAIN coord_to_state(d)

Fills(d, k) ==
    /\ IsBlank(d[k].state)
    /\ HasCoords(d[k])
    /\ coord_key(d[k]) \in DOMAIN coord_to_state(d)

(* Variant: the third loop left after its first fill.                      *)
FilledFirstOnly(d) ==
    LET first == {k \in DOMAIN d : Fills(d, k) /\ \A j \in 1..(k - 1) : ~Fills(d, j)}
    IN  [k \in DOMAIN d |->
            IF k \in first
            THEN [d[k] EXCEPT !.state = coord_to_state(d)[coord_key(d[k])]]
            ELSE d[k]]

(* self.data after fill_missing_states.                                    *)
Filled(d) ==
    [k \in DOMAIN d |->
        IF Fills(d, k)
        THEN [d[k] EXCEPT !.state = coord_to_state(d)[coord_key(d[k])]]
        ELSE d[k]]

filled_count(d) == Cardinality({k \in DOMAIN d : Filled(d)[k] # d[k]})

fill_missing_states ==
    /\ impl = "processor"
    /\ pc = "loaded"
    /\ Len(filled_log) < MaxFills
    /\ data' = Filled(data)
    /\ filled_log' = Append(filled_log, filled_count(data))
    /\ UNCHANGED <<impl, rows, pc, time_window_minutes, min_confidence,
                   sorted_data, i, current_interval, current_interval_start,
                   state_records, state_rows, results, members>>

-----------------------------------------------------------------------------
(* processor.py: the segmenter/classifier (rolling boundary).              *)

(* sorted(self.data, key=utc_datetime): stable.                            *)
InsertByTime(sorted, r) ==
    LET n == Cardinality({k \in DOMAIN sorted :
                            sorted[k].utc_datetime <= r.utc_datetime})
    IN  SubSeq(sorted, 1, n) \o <<r>> \o SubSeq(sorted, n + 1, Len(sorted))

RECURSIVE SortedByTime(_)
SortedByTime(d) ==
    IF d = <<>> THEN <<>>
    ELSE InsertByTime(SortedByTime(SubSeq(d, 1, Len(d) - 1)), d[Len(d)])

(* Comparing None with a datetime, or with None, raises TypeError; every   *)
(* element of a list of two or more takes part in a comparison.            *)
SortRaisesTypeError(d) ==
    Len(d) >= 2 /\ \E k \in DOMAIN d : d[k].utc_datetime = None

NoInterval == [start_time |-> None, end_time |-> None,
               states |-> <<>>, records |-> <<>>]

NewInterval(record) ==
    [start_time |-> record.utc_datetime, end_time |-> record.utc_datetime,
     states |-> <<record.state>>, records |-> <<record>>]

(* (record time - end_time).total_seconds() / 60                            *)
time_diff(record, interval) == record.utc_datetime - interval.end_time

(* Variant: < for <=.                                                      *)
WithinStrictly(diff, window) == diff < window

(* time_diff <= self.time_window_minutes                                   *)
WithinWindow(diff, window) == diff <= window

(* Variants: end_time not advanced; the record not appended.               *)
ExtendedStaleEnd(interval, record) ==
    [interval EXCEPT !.states = Append(@, record.state),
                     !.records = Append(@, record)]

ExtendedEndOnly(interval, record) ==
    [interval EXCEPT !.end_time = record.utc_datetime]

(* Lines 144-146.                                                          *)
Extended(interval, record) ==
    [interval EXCEPT !.end_time = record.utc_datetime,
                     !.states = Append(@, record.state),
                     !.records = Append(@, record)]

(* Variant: <= for <.                                                      *)
JumpAtOrBelow(states, conf) ==
    /\ Cardinality(Range(states)) > 1
    /\ Count(states, MostCommon(states)) * 100 <= conf * Len(states)

(* len(state_counter) > 1 and count / total < min_confidence, exactly.     *)
IsTowerJump(states, conf) ==
    /\ Cardinality(Range(states)) > 1
    /\ Count(states, MostCommon(states)) * 100 < conf * Len(states)

(* round(confidence * 100, 2), in hundredths of a percent.                 *)
ConfidencePercentage(count, total) ==
    (2 * 10000 * count + total) \div (2 * total)

_process_interval(interval) ==
    [start_time |-> interval.start_time,
     end_time |-> interval.end_time,
     state |-> MostCommon(interval.states),
     is_tower_jump |->
        IF IsTowerJump(interval.states, min_confidence) THEN "yes" ELSE "no",
     confidence_percentage |->
        ConfidencePercentage(Count(interval.states, MostCommon(interval.states)),
                             Len(interval.states)),
     total_records |-> Len(interval.states),
     states_count |-> StatesCount(interval.states)]

(* The whole loop and the last interval, as one function of the sorted     *)
(* list: results after the record at k and those behind it.                *)
RECURSIVE ProcLoop(_, _, _, _)
ProcLoop(sd, k, cur, res) ==
    IF k > Len(sd)
    THEN IF cur # NoInterval THEN Append(res, _process_interval(cur)) ELSE res
    ELSE IF IsBlank(sd[k].state) THEN ProcLoop(sd, k + 1, cur, res)
    ELSE IF cur = NoInterval THEN ProcLoop(sd, k + 1, NewInterval(sd[k]), res)
    ELSE IF WithinWindow(time_diff(sd[k], cur), time_window_minutes)
    THEN ProcLoop(sd, k + 1, Extended(cur, sd[k]), res)
    ELSE ProcLoop(sd, k + 1, NewInterval(sd[k]),
                  Append(res, _process_interval(cur)))

ProcResults(sd) == ProcLoop(sd, 1, NoInterval, <<>>)

ProcFrame == <<impl, rows, data, time_window_minutes, min_confidence,
               current_interval_start, state_records, state_rows, filled_log>>

(* analyze_tower_jumps, up to the loop.                                    *)
analyze_tower_jumps ==
    /\ impl = "processor"
    /\ pc = "loaded"
    /\ IF SortRaisesTypeError(data)
       THEN /\ pc' = "TypeError"
            /\ UNCHANGED <<sorted_data, i, current_interval, results, members>>
       ELSE /\ sorted_data' = SortedByTime(data)
            /\ i' = 1
            /\ current_interval' = NoInterval
            /\ results' = <<>>
            /\ members' = <<>>
            /\ pc' = "loop"
    /\ UNCHANGED ProcFrame

InLoop == impl = "processor" /\ pc = "loop" /\ i <= Len(sorted_data)

(* Skip records without state.                                             *)
SkipRecord ==
    /\ InLoop
    /\ IsBlank(sorted_data[i].state)
    /\ i' = i + 1
    /\ UNCHANGED <<pc, sorted_data, current_interval, results, members>>
    /\ UNCHANGED ProcFrame

(* Start the first interval.                                               *)
StartFirstInterval ==
    /\ InLoop
    /\ ~IsBlank(sorted_data[i].state)
    /\ current_interval = NoInterval
    /\ current_interval' = NewInterval(sorted_data[i])
    /\ i' = i + 1
    /\ UNCHANGED <<pc, sorted_data, results, members>>
    /\ UNCHANGED ProcFrame

(* Add to current interval.                                                *)
AddToInterval ==
    /\ InLoop
    /\ ~IsBlank(sorted_data[i].state)
    /\ current_interval # NoInterval
    /\ WithinWindow(time_diff(sorted_data[i], current_interval),
                    time_window_minutes)
    /\ current_interval' = Extended(current_interval, sorted_data[i])
    /\ i' = i + 1
    /\ UNCHANGED <<pc, sorted_data, results, members>>
    /\ UNCHANGED ProcFrame

(* Finalize current interval and start a new one.                          *)
FinalizeAndStart ==
    /\ InLoop
    /\ ~IsBlank(sorted_data[i].state)
    /\ current_interval # NoInterval
    /\ ~WithinWindow(time_diff(sorted_data[i], current_interval),
                     time_window_minutes)
    /\ results' = Append(results, _process_interval(current_interval))
    /\ members' = Append(members, current_interval.records)
    /\ current_interval' = NewInterval(sorted_data[i])
    /\ i' = i + 1
    /\ UNCHANGED <<pc, sorted_data>>
    /\ UNCHANGED ProcFrame

(* Process the last interval and return.                                   *)
ProcessLast ==
    /\ impl = "processor"
    /\ pc = "loop"
    /\ i > Len(sorted_data)
    /\ IF current_interval # NoInterval
       THEN /\ results' = Append(results, _process_interval(current_interval))
            /\ members' = Append(members, current_interval.records)
       ELSE UNCHANGED <<results, members>>
    /\ pc' = "done"
    /\ UNCHANGED <<sorted_data, i, current_interval>>
    /\ UNCHANGED ProcFrame

-----------------------------------------------------------------------------
(* test.py: preprocessing.                                                 *)

(* pd.to_datetime(..., format="%m/%d/%y %H:%M") without errors="coerce"    *)
(* raises ValueError on a string of any other shape.                       *)
ToDatetimeRaises(rs) == \E k \in DOMAIN rs : rs[k].UTCDateTime.fmt # "mdy"

(* The frame read_csv and to_datetime build.  An empty coordinate cell is  *)
(* NaN; lines 35-38 and 54-57 treat NaN and 0 alike, the model keeps 0.    *)
Frame(rs) ==
    [k \in DOMAIN rs |->
        [utc_datetime |-> rs[k].UTCDateTime.t,
         latitude |-> CoordOf(rs[k].Latitude),
         longitude |-> CoordOf(rs[k].Longitude),
         state |-> rs[k].State]]

test_coord_key(row) == <<Round4(row.latitude), Round4(row.longitude)>>

TestIsKnown(row) == HasCoords(row) /\ ~TestIsBlank(row.state)

TestStatesAt(d, key) ==
    LET known == SelectSeq(d, LAMBDA r : TestIsKnown(r) /\ test_coord_key(r) = key)
    IN  [k \in DOMAIN known |-> known[k].state]

coord_state_map(d) ==
    [key \in {test_coord_key(d[k]) : k \in {j \in DOMAIN d : TestIsKnown(d[j])}}
        |-> MostCommon(TestStatesAt(d, key))]

(* self.df after _fill_missing_locations.                                  *)
_fill_missing_locations(d) ==
    [k \in DOMAIN d |->
        IF /\ TestIsBlank(d[k].state)
           /\ HasCoords(d[k])
           /\ test_coord_key(d[k]) \in DOMAIN coord_state_map(d)
        THEN [d[k] EXCEPT !.state = coord_state_map(d)[test_coord_key(d[k])]]
        ELSE d[k]]

RemoveAt(d, k) == SubSeq(d, 1, k - 1) \o SubSeq(d, k + 1, Len(d))

(* sort_values("UTCDateTime"): the default kind is quicksort, which is not *)
(* stable; any order of the rows that ascends in time can come out.        *)
RECURSIVE SortValues(_)
SortValues(d) ==
    IF d = <<>> THEN {<<>>}
    ELSE LET firsts == {k \in DOMAIN d :
                          \A j \in DOMAIN d : d[k].utc_datetime <= d[j].utc_datetime}
         IN  UNION {{<<d[k]>> \o rest : rest \in SortValues(RemoveAt(d, k))} :
                    k \in firsts}

TestFrameVars == <<impl, rows, time_window_minutes, min_confidence,
                   sorted_data, current_interval, filled_log>>

(* preprocess_data, then the first lines of analyze_tower_jumps.           *)
preprocess_data ==
    /\ impl = "test"
    /\ pc = "new"
    /\ IF ToDatetimeRaises(rows)
       THEN /\ pc' = "ValueError"
            /\ UNCHANGED <<data, i, current_interval_start, state_records,
                           state_rows, results, members>>
       ELSE /\ data' \in SortValues(_fill_missing_locations(Frame(rows)))
            /\ i' = 1
            /\ current_interval_start' = None
            /\ state_records' = <<>>
            /\ state_rows' = <<>>
            /\ results' = <<>>
            /\ members' = <<>>
            /\ pc' = "loop"
    /\ UNCHANGED TestFrameVars

-----------------------------------------------------------------------------
(* test.py: the segmenter/classifier (fixed start).                        *)

(* confidence * 100 of one interval, unrounded.                            *)
TestConfidence(states) ==
    Quotient(Count(states, MostCommon(states)) * 100, Len(states))

(* len(state_counter) > 1 and confidence < min_confidence                  *)
TestIsTowerJump(states, conf) ==
    /\ Cardinality(Range(states)) > 1
    /\ Count(states, MostCommon(states)) * 100 < conf * Len(states)

(* One dict of results: lines 99-108 and 121-129.                          *)
TestResult(start, end, states) ==
    [start_time |-> start,
     end_time |-> end,
     state |-> MostCommon(states),
     is_tower_jump |->
        IF TestIsTowerJump(states, min_confidence) THEN "yes" ELSE "no",
     confidence |-> TestConfidence(states)]

(* (record_time - current_interval_start).total_seconds() / 60             *)
test_time_diff(record_time, start) == record_time - start

(* Variant: one minute too many.                                           *)
TestWithinLoosely(diff, window) == diff <= window + 1

(* time_diff <= time_window_minutes                                        *)
TestWithinWindow(diff, window) == diff <= window

(* Variant: the minute not subtracted.                                     *)
EndAtNext(record_time) == record_time

(* record_time - timedelta(minutes=1): end just before the new record.     *)
EndBeforeNext(record_time) == record_time - 1

(* self.df.iloc[-1]["UTCDateTime"]                                         *)
LastRowTime(df) == df[Len(df)].utc_datetime

RECURSIVE TestLoop(_, _, _, _, _)
TestLoop(df, k, start, recs, res) ==
    IF k > Len(df)
    THEN IF recs # <<>>
         THEN Append(res, TestResult(start, LastRowTime(df), recs))
         ELSE res
    ELSE IF TestIsBlank(df[k].state) THEN TestLoop(df, k + 1, start, recs, res)
    ELSE IF start = None
    THEN TestLoop(df, k + 1, df[k].utc_datetime, <<df[k].state>>, res)
    ELSE IF TestWithinWindow(test_time_diff(df[k].utc_datetime, start),
                         time_window_minutes)
    THEN TestLoop(df, k + 1, start, Append(recs, df[k].state), res)
    ELSE TestLoop(df, k + 1, df[k].utc_datetime, <<df[k].state>>,
                  Append(res, TestResult(start,
                                         EndBeforeNext(df[k].utc_datetime),
                                         recs)))

TestResults(df) == TestLoop(df, 1, None, <<>>, <<>>)

TestInLoop == impl = "test" /\ pc = "loop" /\ i <= Len(data)

(* Skip records without state information.                                 *)
TestSkipRecord ==
    /\ TestInLoop
    /\ TestIsBlank(data[i].state)
    /\ i' = i + 1
    /\ UNCHANGED <<data, pc, current_interval_start, state_records,
                   state_rows, results, members>>
    /\ UNCHANGED TestFrameVars

(* Initialize the first interval.                                          *)
TestFirstInterval ==
    /\ TestInLoop
    /\ ~TestIsBlank(data[i].state)
    /\ current_interval_start = None
    /\ current_interval_start' = data[i].utc_datetime
    /\ state_records' = <<data[i].state>>
    /\ state_rows' = <<data[i]>>
    /\ i' = i + 1
    /\ UNCHANGED <<data, pc, results, members>>
    /\ UNCHANGED TestFrameVars

(* Still in the same time window.                                          *)
TestCollect ==
    /\ TestInLoop
    /\ ~TestIsBlank(data[i].state)
    /\ current_interval_start # None
    /\ TestWithinWindow(test_time_diff(data[i].utc_datetime, current_interval_start),
                    time_window_minutes)
    /\ state_records' = Append(state_records, data[i].state)
    /\ state_rows' = Append(state_rows, data[i])
    /\ i' = i + 1
    /\ UNCHANGED <<data, pc, current_interval_start, results, members>>
    /\ UNCHANGED TestFrameVars

(* Finalize the current interval and start a new one.                      *)
TestFinalizeAndStart ==
    /\ TestInLoop
    /\ ~TestIsBlank(data[i].state)
    /\ current_interval_start # None
    /\ ~TestWithinWindow(test_time_diff(data[i].utc_datetime, current_interval_start),
                     time_window_minutes)
    /\ results' = Append(results,
                         TestResult(current_interval_start,
                                    EndBeforeNext(data[i].utc_datetime),
                                    state_records))
    /\ members' = Append(members, state_rows)
    /\ current_interval_start' = data[i].utc_datetime
    /\ state_records' = <<data[i].state>>
    /\ state_rows' = <<data[i]>>
    /\ i' = i + 1
    /\ UNCHANGED <<data, pc>>
    /\ UNCHANGED TestFrameVars

(* Add the last interval and return.                                       *)
TestAddLast ==
    /\ impl = "test"
    /\ pc = "loop"
    /\ i > Len(data)
    /\ IF state_records # <<>>
       THEN /\ results' = Append(results,
                                 TestResult(current_interval_start,
                                            LastRowTime(data), state_records))
            /\ members' = Append(members, state_rows)
       ELSE UNCHANGED <<results, members>>
    /\ pc' = "done"
    /\ UNCHANGED <<data, i, current_interval_start, state_records, state_rows>>
    /\ UNCHANGED TestFrameVars

-----------------------------------------------------------------------------
(* Input files and specifications.                                         *)

NoCoordRow(t, st) ==
    Row(DateCell("mdy", t), NumCell(1), EmptyCell, EmptyCell, st)

(* Segmentation runs: rows without coordinates, blank or labeled.          *)
SegRows == {NoCoordRow(t, st) : t \in 0..MaxTime, st \in {"", "A", "B"}}

(* The end-to-end scenario: T, T+1, T+2, T+10, T+11, T+20.                 *)
ScenarioRows(T) ==
    <<NoCoordRow(T, "A"), NoCoordRow(T + 1, "A"), NoCoordRow(T + 2, "B"),
      NoCoordRow(T + 10, "A"), NoCoordRow(T + 11, "B"), NoCoordRow(T + 20, "A")>>

(* Classification runs: blank and labeled rows at minute 0, and one later   *)
(* row, which closes the interval of minute 0 mid-stream.                  *)
VoteRows ==
    {NoCoordRow(0, st) : st \in {"", "A", "B"}} \cup {NoCoordRow(1, "A")}

CoordRow(c, st) ==
    Row(DateCell("mdy", 0), NumCell(1), NumCell(c[1]), NumCell(c[2]), st)

(* Imputation runs.  Latitudes: the sentinel 0, 40 (not the sentinel, yet  *)
(* round(x, 3) is 0), 110 and 114 (one 3-decimal bucket).  Labeled rows    *)
(* at each; blank rows at each bucket and at either sentinel; one          *)
(* whitespace-only label.                                                  *)
FillRows ==
    {CoordRow(c, st) :
        c \in {<<0, 110>>, <<40, 110>>, <<110, 110>>, <<114, 110>>},
        st \in {"A", "B"}}
    \cup {CoordRow(c, "") :
            c \in {<<0, 110>>, <<110, 0>>, <<40, 110>>, <<110, 110>>}}
    \cup {CoordRow(<<114, 110>>, " ")}

(* Loader runs: both formats, a malformed date, a malformed page number.   *)
LoadDates ==
    {DateCell(f, t) : f \in {"mdy", "iso"}, t \in {0, 1}} \cup {DateCell("bad", 0)}

LoadRows ==
    {Row(dt, page, EmptyCell, EmptyCell, st) :
        dt \in LoadDates, page \in {NumCell(1), JunkCell}, st \in {"", "A"}}

InitWith(impls, inputs, windows, confidences) ==
    /\ impl \in impls
    /\ rows \in inputs
    /\ time_window_minutes \in windows
    /\ min_confidence \in confidences
    /\ data = <<>>
    /\ pc = "new"
    /\ sorted_data = <<>>
    /\ i = 1
    /\ current_interval = NoInterval
    /\ current_interval_start = None
    /\ state_records = <<>>
    /\ state_rows = <<>>
    /\ results = <<>>
    /\ members = <<>>
    /\ filled_log = <<>>

Init ==
    \/ InitWith({"processor", "test"}, SeqsUpTo(SegRows, MaxRows),
                0..MaxWindow, {DefaultConfidence})
    \/ InitWith({"processor", "test"}, {ScenarioRows(T) : T \in 0..MaxShift},
                {DefaultWindow}, {DefaultConfidence})

InitVote ==
    InitWith({"processor", "test"}, SeqsUpTo(VoteRows, MaxVoteRows),
             {0}, {DefaultConfidence, DefaultConfidence + 1})

InitFill ==
    InitWith({"processor"}, SeqsUpTo(FillRows, MaxFillRows),
             {DefaultWindow}, {DefaultConfidence})

InitLoad ==
    InitWith({"processor"}, SeqsUpTo(LoadRows, MaxLoadRows),
             {0}, {DefaultConfidence})

NextAnalyzer ==
    \/ analyze_tower_jumps
    \/ SkipRecord
    \/ StartFirstInterval
    \/ AddToInterval
    \/ FinalizeAndStart
    \/ ProcessLast

NextTest ==
    \/ preprocess_data
    \/ TestSkipRecord
    \/ TestFirstInterval
    \/ TestCollect
    \/ TestFinalizeAndStart
    \/ TestAddLast

(* The imputer of processor.py alone.                                      *)
NextImputer == load_data \/ fill_missing_states

(* processor.py: generate_report's calls, and the methods called alone.    *)
NextProcessor == NextImputer \/ NextAnalyzer

(* Both programs.                                                          *)
Next == NextProcessor \/ NextTest

Spec == Init /\ [][Next]_vars

SpecVote == InitVote /\ [][Next]_vars

SpecFill == InitFill /\ [][NextImputer]_vars

SpecLoad == InitLoad /\ [][NextProcessor]_vars

-----------------------------------------------------------------------------
(* Vocabulary of the properties.                                           *)

Labeled(d) == SelectSeq(d, LAMBDA r : ~IsBlank(r.state))

LabelsOf(recs) == [k \in DOMAIN recs |-> recs[k].state]

RECURSIVE SumSeq(_)
SumSeq(ns) == IF ns = <<>> THEN 0 ELSE Head(ns) + SumSeq(Tail(ns))

RECURSIVE SumOf(_)
SumOf(f) ==
    IF DOMAIN f = {} THEN 0
    ELSE LET s == CHOOSE x \in DOMAIN f : TRUE
         IN  f[s] + SumOf([t \in DOMAIN f \ {s} |-> f[t]])

(* The largest number of members of one interval that carry one label.     *)
DominantCount(recs) ==
    CHOOSE n \in 1..Len(recs) :
        /\ \E k \in DOMAIN recs : Count(LabelsOf(recs), recs[k].state) = n
        /\ \A k \in DOMAIN recs : Count(LabelsOf(recs), recs[k].state) <= n

DistinctLabels(recs) == Cardinality({recs[k].state : k \in DOMAIN recs})

Starts(res) == [k \in DOMAIN res |-> res[k].start_time]

(* The fields both programs report.                                        *)
Reported(res) ==
    [k \in DOMAIN res |->
        [start_time |-> res[k].start_time, end_time |-> res[k].end_time,
         state |-> res[k].state, is_tower_jump |-> res[k].is_tower_jump]]

Finished(program) == impl = program /\ pc = "done"

-----------------------------------------------------------------------------
(* C1. processor.py, valid timestamps: the intervals hold the non-blank    *)
(* records, each once and in time order, and no blank record; the          *)
(* total_records add up to the number of non-blank input records and each  *)
(* states_count adds up to its total_records.                              *)
C1_Coverage ==
    Finished("processor") =>
        /\ Len(members) = Len(results)
        /\ Concat(members) = Labeled(sorted_data)
        /\ \A k \in DOMAIN results :
            /\ results[k].total_records = Len(members[k])
            /\ SumOf(results[k].states_count) = results[k].total_records
            /\ \A s \in DOMAIN results[k].states_count :
                results[k].states_count[s] = Count(LabelsOf(members[k]), s)
        /\ SumSeq([k \in DOMAIN results |-> results[k].total_records])
             = Cardinality({k \in DOMAIN data : ~IsBlank(data[k].state)})

C1_Witness ==
    /\ Finished("processor")
    /\ Len(results) >= 2
    /\ \E k \in DOMAIN data : IsBlank(data[k].state)

(* C2. Both programs, any window >= 0: every interval has start_time <=    *)
(* end_time and starts strictly after the end of the one emitted before.   *)
C2_Ordered ==
    /\ \A k \in DOMAIN results : results[k].start_time <= results[k].end_time
    /\ \A k \in DOMAIN results :
        k > 1 => results[k].start_time > results[k - 1].end_time

C2_Witness ==
    /\ Finished("test")
    /\ time_window_minutes = 0
    /\ Len(results) >= 2
    /\ results[1].end_time = results[1].start_time

(* C3. Both programs: an emitted interval is a jump exactly when it has    *)
(* more than one distinct label and dominant/total < min_confidence; so a  *)
(* one-label interval is never a jump, and a 3:2 interval is a jump at 61  *)
(* percent and not at 60.                                                  *)
C3_JumpRule ==
    \A k \in DOMAIN results :
        /\ results[k].is_tower_jump \in {"yes", "no"}
        /\ results[k].is_tower_jump = "yes" <=>
            /\ DistinctLabels(members[k]) > 1
            /\ DominantCount(members[k]) * 100 < min_confidence * Len(members[k])
        /\ DistinctLabels(members[k]) = 1 => results[k].is_tower_jump = "no"
        /\ (Len(members[k]) = 5 /\ DominantCount(members[k]) = 3
                /\ DistinctLabels(members[k]) = 2) =>
            (results[k].is_tower_jump = "yes" <=> min_confidence = 61)

C3_Witness ==
    /\ Finished("processor")
    /\ min_confidence = 60
    /\ \E k \in DOMAIN results :
        /\ Len(members[k]) = 5
        /\ DominantCount(members[k]) = 3
        /\ DistinctLabels(members[k]) = 2
        /\ results[k].is_tower_jump = "no"
(* A UTC date-time string of one of the two accepted formats.             *)
WellFormed(row) == row.UTCDateTime.fmt \in {"mdy", "iso"}

(* C4. processor.py: a row whose UTC date-time matches neither format is   *)
(* dropped by load_data, the other rows are kept, and so every record the  *)
(* segmenter sorts has a real timestamp.                                   *)
C4_MalformedDropped ==
    (impl = "processor" /\ pc # "new") =>
        /\ \A k \in DOMAIN data : data[k].utc_datetime # None
        /\ Len(data) = Len(SelectSeq(rows,
                            LAMBDA r : WellFormed(r) /\ ~RaisesValueError(r)))

(* C5. Both programs: with the blank-label records taken out of the input  *)
(* the emitted intervals are the same in every reported field.             *)
C5_BlankInvisible ==
    /\ Finished("processor") =>
        results = ProcResults(SortedByTime(Labeled(data)))
    /\ Finished("test") =>
        /\ Reported(results) = Reported(TestResults(Labeled(data)))
        /\ \A k \in DOMAIN results :
            results[k].confidence = TestResults(Labeled(data))[k].confidence

(* The known-label records of the bucket of record k, the votes for a      *)
(* label among them, and what one run of the imputer may do to d.          *)
BucketKnown(d, k) ==
    {j \in DOMAIN d :
        /\ ~IsBlank(d[j].state)
        /\ d[j].latitude # 0 /\ d[j].longitude # 0
        /\ Round3(d[j].latitude) = Round3(d[k].latitude)
        /\ Round3(d[j].longitude) = Round3(d[k].longitude)}

VotesFor(d, k, s) == Cardinality({j \in BucketKnown(d, k) : d[j].state = s})

FillEffect(d, e) ==
    /\ Len(e) = Len(d)
    /\ \A k \in DOMAIN d :
        /\ e[k].utc_datetime = d[k].utc_datetime
        /\ e[k].latitude = d[k].latitude
        /\ e[k].longitude = d[k].longitude
        /\ e[k].state # d[k].state <=>
            /\ IsBlank(d[k].state)
            /\ d[k].latitude # 0 /\ d[k].longitude # 0
            /\ BucketKnown(d, k) # {}
        /\ e[k].state # d[k].state =>
            /\ VotesFor(d, k, e[k].state) >= 1
            /\ \A j \in BucketKnown(d, k) :
                VotesFor(d, k, e[k].state) >= VotesFor(d, k, d[j].state)

(* C6. fill_missing_states changes a label exactly when the label is       *)
(* blank, both coordinates are non-zero and the rounded bucket holds a     *)
(* record with a non-blank label and non-zero coordinates; the new label   *)
(* is a most frequent one among those records; nothing else changes.       *)
C6_FillExactly == [][filled_log' # filled_log => FillEffect(data, data')]_vars

C6_Witness ==
    /\ Len(filled_log) = 1
    /\ Len(data) = 4
    /\ LoadedData(rows)[1].state = "A"
    /\ LoadedData(rows)[4].state = ""
    /\ data[4].state = "B"
    /\ \E k \in DOMAIN data : data[k].state = "" /\ data[k].latitude = 0

(* C7. Imputation is idempotent: a second fill_missing_states fills        *)
(* nothing and leaves every label as the first left it.                    *)
C7_Idempotent ==
    [][(Len(filled_log) >= 1 /\ filled_log' # filled_log) =>
            (data' = data /\ filled_log'[Len(filled_log')] = 0)]_vars

C7_Witness ==
    /\ Len(filled_log) = 2
    /\ filled_log[1] >= 2
    /\ filled_log[2] = 0
(* The intervals the end-to-end scenario is documented to give.            *)
ScenarioResults(T) ==
    <<[start_time |-> T, end_time |-> T + 2, state |-> "A",
       is_tower_jump |-> "no", confidence_percentage |-> 6667,
       total_records |-> 3, states_count |-> [s \in {"A", "B"} |->
                                                IF s = "A" THEN 2 ELSE 1]],
      [start_time |-> T + 10, end_time |-> T + 11, state |-> "A",
       is_tower_jump |-> "yes", confidence_percentage |-> 5000,
       total_records |-> 2, states_count |-> [s \in {"A", "B"} |-> 1]],
      [start_time |-> T + 20, end_time |-> T + 20, state |-> "A",
       is_tower_jump |-> "no", confidence_percentage |-> 10000,
       total_records |-> 1, states_count |-> [s \in {"A"} |-> 1]]>>

(* C8. processor.py (rolling boundary): in every emitted interval the      *)
(* consecutive members are at most the window apart, start_time and        *)
(* end_time are the first and the last member's time, consecutive          *)
(* intervals are more than the window apart, and at the end of the input   *)
(* every labeled record has been emitted; the scenario T, T+1, T+2, T+10,  *)
(* T+11, T+20 with A, A, B, A, B, A and window 5 gives its 3 intervals.    *)
C8_Rolling ==
    impl = "processor" =>
        /\ \A k \in DOMAIN results :
            /\ members[k] # <<>>
            /\ results[k].start_time = members[k][1].utc_datetime
            /\ results[k].end_time = members[k][Len(members[k])].utc_datetime
            /\ \A j \in 2..Len(members[k]) :
                members[k][j].utc_datetime - members[k][j - 1].utc_datetime
                    <= time_window_minutes
            /\ k > 1 =>
                results[k].start_time - results[k - 1].end_time
                    > time_window_minutes
        /\ pc = "done" => Concat(members) = Labeled(sorted_data)
        /\ (pc = "done" /\ \E T \in 0..MaxShift : rows = ScenarioRows(T)
                /\ time_window_minutes = 5 /\ min_confidence = 60) =>
            results = ScenarioResults(rows[1].UTCDateTime.t)

C8_Witness ==
    /\ Finished("processor")
    /\ rows = ScenarioRows(0)
    /\ Len(results) = 3
    /\ results[2].is_tower_jump = "yes"

(* Every member of every emitted interval is within the window of its      *)
(* start_time.                                                             *)
MembersWithinWindow ==
    \A k \in DOMAIN results :
        \A j \in DOMAIN members[k] :
            /\ results[k].start_time <= members[k][j].utc_datetime
            /\ members[k][j].utc_datetime - results[k].start_time
                <= time_window_minutes

(* C9, as claimed. test.py (fixed start): every interval has                *)
(* end_time - start_time <= window and every member within the window of   *)
(* start_time.                                                             *)
C9_SpanCapped ==
    impl = "test" =>
        /\ \A k \in DOMAIN results :
            results[k].end_time - results[k].start_time <= time_window_minutes
        /\ MembersWithinWindow

(* C9, as amended. test.py: every member is within the window of            *)
(* start_time, which is the first member's time; end_time is one minute    *)
(* before the next interval's start, and for the last interval the time    *)
(* of the last row of the frame.                                           *)
C9_MembersCapped ==
    impl = "test" =>
        /\ MembersWithinWindow
        /\ \A k \in DOMAIN results :
            /\ members[k] # <<>>
            /\ results[k].start_time = members[k][1].utc_datetime
            /\ k < Len(results) =>
                results[k].end_time = results[k + 1].start_time - 1
        /\ (pc = "done" /\ results # <<>>) =>
            results[Len(results)].end_time = data[Len(data)].utc_datetime

C9_Witness ==
    /\ Finished("test")
    /\ Len(results) >= 2
    /\ Len(members[1]) >= 2
    /\ results[1].end_time - results[1].start_time > time_window_minutes

(* The starts of `fixed` refine those of `rolling`.                        *)
StartSet(res) == {res[k].start_time : k \in DOMAIN res}

Refines(rolling, fixed) ==
    /\ StartSet(rolling) \subseteq StartSet(fixed)
    /\ (\A k \in DOMAIN rolling :
            rolling[k].end_time - rolling[k].start_time <= time_window_minutes)
        => Starts(rolling) = Starts(fixed)

(* C10. On one sorted list of labeled records and one window, every start  *)
(* of a rolling-boundary interval is the start of a fixed-start interval,  *)
(* and the two sequences of starts are equal when every rolling interval   *)
(* spans at most the window.                                               *)
C10_Refinement ==
    /\ Finished("processor") =>
        Refines(results, TestResults(Labeled(sorted_data)))
    /\ Finished("test") =>
        Refines(ProcResults(Labeled(data)), results)

C10_Witness ==
    /\ Finished("processor")
    /\ Len(results) >= 1
    /\ Len(TestResults(Labeled(sorted_data))) > Len(results)

=============================================================================
